---- MODULE Spec2Model ----
(***************************************************************************)
(* MeanShiftR: the mode clustering pass (src/src/FindCluster.cpp) and the  *)
(* kernel primitives (src/src/LittleFunctionsCollection.cpp).              *)
(*                                                                         *)
(* Numbers.  The C++ code computes in double precision.  The model draws   *)
(* its inputs from small sets of integers, on which +, - and * are exact   *)
(* in double precision as well.  A square root is carried by its radicand  *)
(* and a quotient by the pair <<numerator, denominator>>, so that no       *)
(* rounding is introduced by the model:                                    *)
(*   <<n, d>> with d > 0  is the finite value n/d,                         *)
(*   <<1, 0>>, <<-1, 0>>  are +infinity and -infinity,                     *)
(*   <<0, 0>>             is NaN.                                          *)
(***************************************************************************)
EXTENDS Integers, Sequences, FiniteSets

VARIABLES
  ctr,       \* FindCluster: the matrix of centroids, row k |-> <<x, y, z>>
  epsilon,   \* FindCluster: the distance threshold
  nrows,     \* FindCluster: ctr.nrow()
  clus,      \* FindCluster: the id vector, index 0 .. nrows-1
  i,         \* FindCluster: the outer loop counter
  pc,        \* FindCluster: "loop" (inside the pass), "done" (returned); "par"
             \* (iterations run in any order); "sweep", "swept" (order sweep);
             \* "idle" (not called)
  out,       \* FindCluster: the returned data frame (X, Y, Z, ID), or <<>>
  pass,      \* 1: the pass on the given centroids, 2: on their leaders' coordinates
  ids1,      \* the ID column returned by pass 1, kept for pass 2
  nwrites,   \* history: how many times clus[k] has been assigned
  pending,   \* out-of-order execution: the outer iterations not yet executed
  differed,  \* order sweep: some order of the iterations changed the id vector
  call,      \* kernel primitives: the function under evaluation
  args,      \* kernel primitives: its arguments
  ret,       \* kernel primitives: <<>> before the call, <<value>> once returned
  negative   \* kernel sweep: some evaluated vertical weight was negative

vars == <<ctr, epsilon, nrows, clus, i, pc, out, pass, ids1, nwrites, pending,
          differed, call, args, ret, negative>>

clusterVars ==
  <<ctr, epsilon, nrows, clus, i, pc, out, pass, ids1, nwrites, pending, differed>>
kernelVars == <<call, args, ret, negative>>

(***************************************************************************)
(* Bounds of the model.                                                    *)
(***************************************************************************)
\* most centroids in an input matrix
MaxN == 3
\* largest x coordinate of a centroid
MaxCoord == 3
\* largest epsilon
MaxEps == 3
\* largest |Height| of the vertical kernel, in whole units
MaxH == 2
\* largest |CtrZ| of the vertical kernel, in eighths of a unit
MaxCz == 2
\* largest |PointZ| of the vertical kernel, in eighths of a unit
MaxPz == 12
\* largest |Radius|, |Width| and horizontal coordinate of the planar tests
MaxR == 2

(***************************************************************************)
(* FindCluster                                                             *)
(***************************************************************************)

\* The centroids the inputs are drawn from: a row along x, and one step along
\* y and along z, so that every coordinate takes part in a distance.
PointAt(d) ==
  IF d <= MaxCoord THEN <<d, 0, 0>>
  ELSE IF d = MaxCoord + 1 THEN <<0, 1, 0>> ELSE <<0, 0, 1>>

NPoints == MaxCoord + 3

Points == {PointAt(d) : d \in 0..(NPoints - 1)}

Matrices == UNION {[0..(n - 1) -> Points] : n \in 0..MaxN}

Epsilons == (-1)..MaxEps

\* pow(x, 2)
Pow2(x) == x * x

\* The radicand of delta: the sum of the three squared coordinate differences
\* with the z term left out (a planar distance).
Delta2NoZ(c, a, b) ==
  Pow2(c[a][1] - c[b][1]) + Pow2(c[a][2] - c[b][2])

\* The radicand of delta, line 26: delta = sqrt(Delta2(ctr, i, j)).
Delta2(c, a, b) ==
  Pow2(c[a][1] - c[b][1]) + Pow2(c[a][2] - c[b][2]) + Pow2(c[a][3] - c[b][3])

\* delta <= epsilon instead of delta < epsilon.
DeltaLessEq(d2, eps) == eps >= 0 /\ d2 <= eps * eps

\* delta < epsilon, line 28, for delta = sqrt(d2) >= 0: false when epsilon <= 0.
DeltaLess(d2, eps) == eps > 0 /\ d2 < eps * eps

\* The inner loop without its "&& !found" stop: the last match wins.
RECURSIVE InnerLoopNoBreak(_, _, _, _, _, _)
InnerLoopNoBreak(c, eps, a, j, id, found) ==
  IF j < a
    THEN IF DeltaLess(Delta2(c, a, j), eps)
           THEN InnerLoopNoBreak(c, eps, a, j + 1, j, TRUE)
           ELSE InnerLoopNoBreak(c, eps, a, j + 1, id, found)
    ELSE id

\* The inner loop, lines 24-33, from its state (j, id, found) to the id it
\* leaves: for (j ; j < i && !found ; j++) if (delta < epsilon) {id = j; found = true;}
RECURSIVE InnerLoop(_, _, _, _, _, _)
InnerLoop(c, eps, a, j, id, found) ==
  IF j < a /\ ~found
    THEN IF DeltaLess(Delta2(c, a, j), eps)
           THEN InnerLoop(c, eps, a, j + 1, j, TRUE)
           ELSE InnerLoop(c, eps, a, j + 1, id, found)
    ELSE id

\* An outer iteration that attaches row a to the id already stored for the
\* matching row, clus[j], instead of to j itself.
RECURSIVE ChainedLoop(_, _, _, _, _, _, _)
ChainedLoop(c, eps, cl, a, j, id, found) ==
  IF j < a /\ ~found
    THEN IF DeltaLess(Delta2(c, a, j), eps)
           THEN ChainedLoop(c, eps, cl, a, j + 1, cl[j], TRUE)
           ELSE ChainedLoop(c, eps, cl, a, j + 1, id, found)
    ELSE id

OuterBodyChained(c, eps, cl, a) ==
  [cl EXCEPT ![a] = ChainedLoop(c, eps, cl, a, 0, a, FALSE)]

\* The body of the outer loop storing ids counted from 1, as R counts rows.
OuterBodyOneBased(c, eps, cl, a) ==
  [cl EXCEPT ![a] = InnerLoop(c, eps, a, 0, a, FALSE) + 1]

\* The body of the outer loop for row a, lines 21-34, on the id vector cl:
\* id = a; found = false; the inner loop; clus[a] = id.
OuterBody(c, eps, cl, a) ==
  [cl EXCEPT ![a] = InnerLoop(c, eps, a, 0, a, FALSE)]

\* The outer loop, lines 19-35, from row a on: the sequential pass.
RECURSIVE OuterLoop(_, _, _, _)
OuterLoop(c, eps, cl, a) ==
  IF a < Cardinality(DOMAIN c)
    THEN OuterLoop(c, eps, OuterBody(c, eps, cl, a), a + 1)
    ELSE cl

\* NumericVector clus(nrows): n zeros.
ZeroVector(n) == [k \in 0..(n - 1) |-> 0]

\* DataFrame::create(X = ctr(_,0), Y = ctr(_,1), Z = ctr(_,2), ID = clus), line 36.
DataFrame(c, cl) ==
  [X  |-> [k \in DOMAIN c |-> c[k][1]],
   Y  |-> [k \in DOMAIN c |-> c[k][2]],
   Z  |-> [k \in DOMAIN c |-> c[k][3]],
   ID |-> cl]

\* The coordinates of each row's leader, read from a returned data frame.
LeaderCoordinates(df) ==
  [k \in DOMAIN df.ID |-> <<df.X[df.ID[k]], df.Y[df.ID[k]], df.Z[df.ID[k]]>>]

KernelIdle == call = "none" /\ args = <<>> /\ ret = <<>> /\ negative = FALSE

ClusterIdle ==
  /\ ctr = <<>> /\ epsilon = 0 /\ nrows = 0 /\ clus = <<>> /\ i = 0
  /\ pc = "idle" /\ out = <<>> /\ pass = 0 /\ ids1 = <<>> /\ nwrites = <<>>
  /\ pending = {} /\ differed = FALSE

\* FindCluster is entered, lines 15-18: nrows and the zero vector are set.
Init ==
  /\ ctr \in Matrices
  /\ epsilon \in Epsilons
  /\ nrows = Cardinality(DOMAIN ctr)
  /\ clus = ZeroVector(nrows)
  /\ i = 0
  /\ pc = "loop"
  /\ out = <<>>
  /\ pass = 1
  /\ ids1 = <<>>
  /\ nwrites = ZeroVector(nrows)
  /\ pending = {}
  /\ differed = FALSE
  /\ KernelIdle

\* One iteration of the outer loop, lines 19-35.
OuterIteration ==
  /\ pc = "loop"
  /\ i < nrows
  /\ clus' = OuterBody(ctr, epsilon, clus, i)
  /\ nwrites' = [nwrites EXCEPT ![i] = @ + 1]
  /\ i' = i + 1
  /\ UNCHANGED <<ctr, epsilon, nrows, pc, out, pass, ids1, pending, differed, kernelVars>>

\* The outer loop ends and the data frame is returned, line 36.
Return ==
  /\ pc = "loop"
  /\ ~(i < nrows)
  /\ out' = DataFrame(ctr, clus)
  /\ pc' = "done"
  /\ UNCHANGED <<ctr, epsilon, nrows, clus, i, pass, ids1, nwrites, pending, differed, kernelVars>>

\* FindCluster is applied again, with the same epsilon, to the leader
\* coordinates of the data frame it returned.
Recluster ==
  /\ pc = "done"
  /\ pass = 1
  /\ ctr' = LeaderCoordinates(out)
  /\ ids1' = out.ID
  /\ pass' = 2
  /\ clus' = ZeroVector(nrows)
  /\ nwrites' = ZeroVector(nrows)
  /\ i' = 0
  /\ out' = <<>>
  /\ pc' = "loop"
  /\ UNCHANGED <<epsilon, nrows, pending, differed, kernelVars>>

Next == OuterIteration \/ Return \/ Recluster

Spec == Init /\ [][Next]_vars

(***************************************************************************)
(* The outer iterations executed in any order, one at a time: each runs    *)
(* the body of the loop on the id vector as it stands when it runs.        *)
(***************************************************************************)
InitPar ==
  /\ ctr \in Matrices
  /\ epsilon \in Epsilons
  /\ nrows = Cardinality(DOMAIN ctr)
  /\ clus = ZeroVector(nrows)
  /\ i = 0
  /\ pc = "par"
  /\ out = <<>>
  /\ pass = 1
  /\ ids1 = <<>>
  /\ nwrites = ZeroVector(nrows)
  /\ pending = 0..(nrows - 1)
  /\ differed = FALSE
  /\ KernelIdle

\* The outer iteration for row k, lines 21-34, whatever rows ran before it.
ParIteration(k) ==
  /\ pc = "par"
  /\ k \in pending
  /\ clus' = OuterBody(ctr, epsilon, clus, k)
  /\ nwrites' = [nwrites EXCEPT ![k] = @ + 1]
  /\ pending' = pending \ {k}
  /\ UNCHANGED <<ctr, epsilon, nrows, i, pc, out, pass, ids1, differed, kernelVars>>

\* Every iteration has run: the data frame is returned, line 36.
ParReturn ==
  /\ pc = "par"
  /\ pending = {}
  /\ out' = DataFrame(ctr, clus)
  /\ pc' = "done"
  /\ UNCHANGED <<ctr, epsilon, nrows, clus, i, pass, ids1, nwrites, pending, differed, kernelVars>>

\* The permutations of 0 .. n-1, as sequences: the orders of n iterations.
Orders(n) ==
  {s \in [1..n -> 0..(n - 1)] : \A a, b \in 1..n : a # b => s[a] # s[b]}

\* The id vector left by the outer iterations run in the order ord, from
\* position p of ord on.
RECURSIVE RunOrder(_, _, _, _, _)
RunOrder(c, eps, cl, ord, p) ==
  IF p > Len(ord) THEN cl
  ELSE RunOrder(c, eps, OuterBody(c, eps, cl, ord[p]), ord, p + 1)

\* Some order of the outer iterations on (c, eps) leaves an id vector other
\* than the one the sequential pass leaves.
SomeOrderDiffers(c, eps) ==
  \E ord \in Orders(Cardinality(DOMAIN c)) :
    RunOrder(c, eps, ZeroVector(Cardinality(DOMAIN c)), ord, 1)
      # OuterLoop(c, eps, ZeroVector(Cardinality(DOMAIN c)), 0)

\* The enumeration of the inputs: the matrices of Matrices in the order of
\* their row count and then of their rows, for each epsilon in turn.
PointIndex(p) == CHOOSE d \in 0..(NPoints - 1) : PointAt(d) = p

IsLastMatrix(c) ==
  /\ Cardinality(DOMAIN c) = MaxN
  /\ \A k \in DOMAIN c : PointIndex(c[k]) = NPoints - 1

NextMatrix(c) ==
  LET n == Cardinality(DOMAIN c)
      room == {k \in DOMAIN c : PointIndex(c[k]) < NPoints - 1}
  IN  IF room = {}
        THEN [m \in 0..n |-> PointAt(0)]
        ELSE LET k == CHOOSE x \in room : \A y \in room : x <= y
             IN  [m \in 0..(n - 1) |->
                    IF m < k THEN PointAt(0)
                    ELSE IF m = k THEN PointAt(PointIndex(c[k]) + 1)
                    ELSE c[m]]

\* The sweep starts at the first input: the empty matrix, the least epsilon.
InitSweep ==
  /\ ctr = <<>>
  /\ epsilon = -1
  /\ nrows = 0
  /\ clus = <<>>
  /\ i = 0
  /\ pc = "sweep"
  /\ out = <<>>
  /\ pass = 1
  /\ ids1 = <<>>
  /\ nwrites = <<>>
  /\ pending = {}
  /\ differed = FALSE
  /\ KernelIdle

\* The outer iterations of FindCluster(ctr, epsilon) are run in every order
\* and compared with the sequential pass; then the next input is taken.
SweepOrders ==
  /\ pc = "sweep"
  /\ differed' = (differed \/ SomeOrderDiffers(ctr, epsilon))
  /\ IF ~IsLastMatrix(ctr)
       THEN /\ ctr' = NextMatrix(ctr)
            /\ UNCHANGED <<epsilon, pc>>
       ELSE IF epsilon < MaxEps
         THEN /\ ctr' = <<>>
              /\ epsilon' = epsilon + 1
              /\ UNCHANGED pc
         ELSE /\ pc' = "swept"
              /\ UNCHANGED <<ctr, epsilon>>
  /\ nrows' = Cardinality(DOMAIN ctr')
  /\ UNCHANGED <<clus, i, out, pass, ids1, nwrites, pending, kernelVars>>

NextPar == (\E k \in pending : ParIteration(k)) \/ ParReturn \/ SweepOrders

SpecPar == (InitPar \/ InitSweep) /\ [][NextPar]_vars

(***************************************************************************)
(* The kernel primitives                                                   *)
(*                                                                         *)
(* The inputs are integers; a Height is a multiple of 8 and a Width a      *)
(* multiple of 2, so that Height/4.0, Height/2.0, 3.0*Height/8.0,          *)
(* 0.5*Height and Width/2.0 are integers too and \div computes them        *)
(* exactly.                                                                *)
(***************************************************************************)

Sign(x) == IF x > 0 THEN 1 ELSE IF x < 0 THEN -1 ELSE 0

Abs(x) == IF x < 0 THEN -x ELSE x

RECURSIVE Gcd(_, _)
Gcd(a, b) == IF b = 0 THEN a ELSE Gcd(b, a % b)

\* The double n/d in lowest terms; n/0 is an infinity of n's sign, 0/0 is NaN.
FDiv(n, d) ==
  IF d = 0 THEN <<Sign(n), 0>>
  ELSE LET g == Gcd(Abs(n), Abs(d))
       IN  <<(Sign(d) * n) \div g, Abs(d) \div g>>

NaN == <<0, 0>>

\* a - b, for a finite or NaN.
FSub(a, b) == FDiv(a[1] * b[2] - b[1] * a[2], a[2] * b[2])

\* pow(a, 2.0)
FPow2(a) == FDiv(a[1] * a[1], a[2] * a[2])

\* std::fabs
FAbs(a) == <<Abs(a[1]), a[2]>>

\* a < b on doubles: false when either is NaN.
FLess(a, b) ==
  /\ a # NaN
  /\ b # NaN
  /\ IF a[2] = 0 /\ b[2] = 0 THEN a[1] < b[1] ELSE a[1] * b[2] < b[1] * a[2]

\* std::min(a, b): (b < a) ? b : a
StdMin(a, b) == IF FLess(b, a) THEN b ELSE a

\* InCylinder with the radius test strict.
InCylinderStrict(PointX, PointY, PointZ, Radius, Height, CtrX, CtrY, CtrZ) ==
  /\ Pow2(PointX - CtrX) + Pow2(PointY - CtrY) < Pow2(Radius)
  /\ PointZ >= CtrZ - (Height \div 2)
  /\ PointZ <= CtrZ + (Height \div 2)

\* InCylinder, lines 10-15.
InCylinder(PointX, PointY, PointZ, Radius, Height, CtrX, CtrY, CtrZ) ==
  /\ Pow2(PointX - CtrX) + Pow2(PointY - CtrY) <= Pow2(Radius)
  /\ PointZ >= CtrZ - (Height \div 2)
  /\ PointZ <= CtrZ + (Height \div 2)

\* VerticalDistance normalised by Height/2 instead of 3*Height/8.
VerticalDistanceHalfNorm(Height, CtrZ, PointZ) ==
  LET BottomDistance == FAbs(FDiv(CtrZ - (Height \div 4) - PointZ, Height \div 2))
      TopDistance == FAbs(FDiv(CtrZ + (Height \div 2) - PointZ, Height \div 2))
  IN  StdMin(BottomDistance, TopDistance)

\* VerticalDistance, lines 18-23.
VerticalDistance(Height, CtrZ, PointZ) ==
  LET BottomDistance ==
        FAbs(FDiv(CtrZ - (Height \div 4) - PointZ, (3 * Height) \div 8))
      TopDistance ==
        FAbs(FDiv(CtrZ + (Height \div 2) - PointZ, (3 * Height) \div 8))
      MinDistance == StdMin(BottomDistance, TopDistance)
  IN  MinDistance

\* EpanechnikovFunction with the window Height/2 below the center as above it.
EpanechnikovSymmetric(Height, CtrZ, PointZ) ==
  IF PointZ >= CtrZ - (Height \div 2) /\ PointZ <= CtrZ + (Height \div 2)
    THEN FSub(<<1, 1>>, FPow2(FSub(<<1, 1>>, VerticalDistance(Height, CtrZ, PointZ))))
    ELSE <<0, 1>>

\* EpanechnikovFunction without its window test.
EpanechnikovNoMask(Height, CtrZ, PointZ) ==
  FSub(<<1, 1>>, FPow2(FSub(<<1, 1>>, VerticalDistance(Height, CtrZ, PointZ))))

\* EpanechnikovFunction, lines 34-39.
EpanechnikovFunction(Height, CtrZ, PointZ) ==
  IF PointZ >= CtrZ - (Height \div 4) /\ PointZ <= CtrZ + (Height \div 2)
    THEN FSub(<<1, 1>>, FPow2(FSub(<<1, 1>>, VerticalDistance(Height, CtrZ, PointZ))))
    ELSE <<0, 1>>

\* GaussFunction, lines 42-47.  The value returned is std::exp(x); the model
\* returns x, the argument of exp.  Distance is carried by its square.
GaussFunction(Width, CtrX, CtrY, PointX, PointY) ==
  LET Distance2 == Pow2(PointX - CtrX) + Pow2(PointY - CtrY)
      NormDistance2 == FDiv(Distance2, Pow2(Width \div 2))
  IN  FDiv(-5 * NormDistance2[1], NormDistance2[2])

\* The R function gauss of the comment, lines 50-55: again the argument of exp.
gauss(w, CtrX, CtrY, PointX, PointY) ==
  LET distance2 == Pow2(PointX - CtrX) + Pow2(PointY - CtrY)
      normdistance2 == FDiv(distance2, Pow2(w))
  IN  FDiv(-5 * normdistance2[1], normdistance2[2])

\* The inputs of the kernel primitives.
Heights == {8 * h : h \in (-MaxH)..MaxH}

Widths == {2 * w : w \in (-MaxR)..MaxR}

CylinderArgs ==
  [PointX : (-MaxR)..MaxR, PointY : (-1)..1, PointZ : (-MaxR)..MaxR,
   Radius : (-MaxR)..MaxR, Height : {2 * h : h \in (-1)..MaxR},
   CtrX : 0..1, CtrY : 0..1, CtrZ : 0..1]

VerticalArgs ==
  [Height : Heights, CtrZ : (-MaxCz)..MaxCz, PointZ : (-MaxPz)..MaxPz]

GaussArgs ==
  [Width : Widths, CtrX : 0..1, CtrY : 0..1, PointX : (-MaxR)..MaxR, PointY : (-1)..1]

\* A primitive is about to be called on arguments of its domain.
InitKernel ==
  /\ ClusterIdle
  /\ \/ call = "InCylinder" /\ args \in CylinderArgs
     \/ call = "VerticalDistance" /\ args \in VerticalArgs
     \/ call = "EpanechnikovFunction" /\ args \in VerticalArgs
     \/ call = "GaussFunction" /\ args \in GaussArgs
  /\ ret = <<>>
  /\ negative = FALSE

CallInCylinder ==
  /\ call = "InCylinder" /\ ret = <<>>
  /\ ret' = <<InCylinder(args.PointX, args.PointY, args.PointZ, args.Radius,
                         args.Height, args.CtrX, args.CtrY, args.CtrZ)>>
  /\ UNCHANGED <<clusterVars, call, args, negative>>

CallVerticalDistance ==
  /\ call = "VerticalDistance" /\ ret = <<>>
  /\ ret' = <<VerticalDistance(args.Height, args.CtrZ, args.PointZ)>>
  /\ UNCHANGED <<clusterVars, call, args, negative>>

CallEpanechnikovFunction ==
  /\ call = "EpanechnikovFunction" /\ ret = <<>>
  /\ ret' = <<EpanechnikovFunction(args.Height, args.CtrZ, args.PointZ)>>
  /\ UNCHANGED <<clusterVars, call, args, negative>>

CallGaussFunction ==
  /\ call = "GaussFunction" /\ ret = <<>>
  /\ ret' = <<GaussFunction(args.Width, args.CtrX, args.CtrY, args.PointX, args.PointY)>>
  /\ UNCHANGED <<clusterVars, call, args, negative>>

\* The sweep of EpanechnikovFunction over VerticalArgs starts at the least
\* Height, CtrZ and PointZ.
InitKernelSweep ==
  /\ ClusterIdle
  /\ call = "sweep"
  /\ args = [Height |-> -8 * MaxH, CtrZ |-> -MaxCz, PointZ |-> -MaxPz]
  /\ ret = <<>>
  /\ negative = FALSE

\* EpanechnikovFunction is evaluated on args; then the next arguments are taken.
SweepEpanechnikov ==
  /\ call = "sweep"
  /\ ret' = <<EpanechnikovFunction(args.Height, args.CtrZ, args.PointZ)>>
  /\ negative' = (negative \/ ret'[1][1] < 0)
  /\ IF args.PointZ < MaxPz
       THEN args' = [args EXCEPT !.PointZ = @ + 1] /\ UNCHANGED call
       ELSE IF args.CtrZ < MaxCz
         THEN /\ args' = [args EXCEPT !.CtrZ = @ + 1, !.PointZ = -MaxPz]
              /\ UNCHANGED call
         ELSE IF args.Height < 8 * MaxH
           THEN /\ args' = [Height |-> args.Height + 8, CtrZ |-> -MaxCz,
                            PointZ |-> -MaxPz]
                /\ UNCHANGED call
           ELSE call' = "swept" /\ UNCHANGED args
  /\ UNCHANGED clusterVars

NextKernel ==
  \/ CallInCylinder
  \/ CallVerticalDistance
  \/ CallEpanechnikovFunction
  \/ CallGaussFunction
  \/ SweepEpanechnikov

SpecKernel == (InitKernel \/ InitKernelSweep) /\ [][NextKernel]_vars


(***************************************************************************)
(* Claims about FindCluster.                                               *)
(***************************************************************************)

\* The squared 3D Euclidean distance between two points.
SqDist(p, q) ==
  (p[1] - q[1]) * (p[1] - q[1]) + (p[2] - q[2]) * (p[2] - q[2])
    + (p[3] - q[3]) * (p[3] - q[3])

\* The Euclidean distance between p and q is strictly less than e.
Within(p, q, e) == e > 0 /\ SqDist(p, q) < e * e

\* The rows before k that lie strictly within e of row k.
Matches(c, e, k) == {j \in 0..(k - 1) : Within(c[k], c[j], e)}

\* The smallest matching row before k, or k when there is none.
FirstMatch(c, e, k) ==
  IF Matches(c, e, k) = {}
    THEN k
    ELSE CHOOSE j \in Matches(c, e, k) : \A m \in Matches(c, e, k) : j <= m

\* C1: when FindCluster has returned, the id of every row i is the smallest
\* j < i whose Euclidean distance to row i is strictly less than epsilon, and
\* i when there is no such j.
C1_FirstMatchLeader ==
  pc = "done" =>
    \A k \in 0..(nrows - 1) : out.ID[k] = FirstMatch(ctr, epsilon, k)

\* C1 witness: a returned pass in which one row lies exactly epsilon from an
\* earlier row and is not merged with it, and another row is attached to its
\* first match although a later row is strictly nearer.
C1_Witness ==
  /\ pc = "done" /\ pass = 1
  /\ \E a, b \in 0..(nrows - 1) :
       /\ a < b /\ epsilon > 0
       /\ SqDist(ctr[a], ctr[b]) = epsilon * epsilon
       /\ out.ID[b] = b
  /\ \E k, j, m \in 0..(nrows - 1) :
       /\ j < m /\ m < k
       /\ out.ID[k] = j
       /\ SqDist(ctr[k], ctr[m]) < SqDist(ctr[k], ctr[j])

\* Every id of the vector v is a leader: v[v[k]] = v[k].
AllLeaders(v) == \A k \in DOMAIN v : v[v[k]] = v[k]

\* C2 as stated: FindCluster on the leader coordinates of its own output
\* returns the ids of that output.
C2_FixedPoint ==
  (pc = "done" /\ pass = 2) => out.ID = ids1

\* C2 as amended: FindCluster on the leader coordinates of its own output
\* returns the ids of that output whenever every id of that output is a leader.
C2_FixedPointOfLeaders ==
  (pc = "done" /\ pass = 2 /\ AllLeaders(ids1)) => out.ID = ids1

\* C2 witness: the second pass has returned for an output whose ids are all
\* leaders and in which some row was merged into an earlier one.
C2_Witness ==
  /\ pc = "done" /\ pass = 2
  /\ AllLeaders(ids1)
  /\ \E k \in DOMAIN ids1 : ids1[k] # k
  /\ out.ID = ids1

\* C3 as stated: every returned id is a leader, id(id(i)) = id(i).
C3_IdsAreLeaders ==
  pc = "done" => AllLeaders(out.ID)

\* C3 as amended: id(id(i)) <= id(i) <= i, and id(id(i)) = id(i) exactly when
\* no row before id(i) lies strictly within epsilon of row id(i).
C3_LeaderIffNoEarlierMatch ==
  pc = "done" =>
    \A k \in 0..(nrows - 1) :
      /\ 0 <= out.ID[out.ID[k]]
      /\ out.ID[out.ID[k]] <= out.ID[k]
      /\ out.ID[k] <= k
      /\ (out.ID[out.ID[k]] = out.ID[k]) <=> (Matches(ctr, epsilon, out.ID[k]) = {})

\* C3 witness: a returned pass in which a row is attached to a row that is
\* itself attached to an earlier one.
C3_Witness ==
  /\ pc = "done" /\ pass = 1
  /\ \E k \in 0..(nrows - 1) : out.ID[out.ID[k]] < out.ID[k]

\* C7, the state part: inside and after the pass every id written so far is
\* in 0 .. k, rows not reached yet are unwritten, and when the pass has
\* returned every row has been written exactly once (no row for no input).
C7_WrittenIds ==
  /\ pc \in {"loop", "done"} =>
       /\ DOMAIN clus = 0..(nrows - 1)
       /\ \A k \in 0..(nrows - 1) :
            /\ k < i => (clus[k] \in 0..k /\ nwrites[k] = 1)
            /\ k >= i => nwrites[k] = 0
  /\ pc = "done" =>
       /\ i = nrows
       /\ DOMAIN out.ID = 0..(nrows - 1)
       /\ \A k \in 0..(nrows - 1) : nwrites[k] = 1 /\ out.ID[k] \in 0..k

\* C7, the step part: a later outer iteration changes no id written before.
C7_WrittenStays ==
  (pc = "loop" /\ pass' = pass) =>
     \A k \in 0..(nrows - 1) : k < i => clus'[k] = clus[k]

\* C7: in every state of the pass each id written satisfies 0 <= clus[k] <= k,
\* an id once written is never changed by a later outer iteration, and at the
\* end exactly one id has been written for each centroid.
C7_PassInvariant == [](C7_WrittenIds) /\ [][C7_WrittenStays]_vars

\* C7 witness: the pass is under way, with a row merged into an earlier one
\* and rows still to come.
C7_Witness ==
  /\ pc = "loop" /\ pass = 1
  /\ i < nrows
  /\ \E k \in 0..(i - 1) : clus[k] < k

\* C8 as stated: some order of the outer iterations, on some input, leaves an
\* id vector that differs from the sequential pass: once every input has
\* been run in every order, a difference has been seen.
C8_OrderCanChangeIds ==
  pc = "swept" => differed

\* C8 as amended: an outer iteration reads the coordinates only, never an id
\* written before, so in whatever order the iterations run every id written
\* is the one the sequential pass writes, and so is the vector returned.
C8_OrderIndependent ==
  /\ pc = "par" =>
       \A k \in (0..(nrows - 1)) \ pending :
         clus[k] = OuterLoop(ctr, epsilon, ZeroVector(nrows), 0)[k]
  /\ pc = "done" => out.ID = OuterLoop(ctr, epsilon, ZeroVector(nrows), 0)
  /\ ~differed

\* C8 witness: row 2 has run before row 1, and row 2 matches row 1, whose
\* sequential id is not 0.
C8_Witness ==
  /\ pc = "par"
  /\ nrows >= 3
  /\ 1 \in pending /\ ~(2 \in pending)
  /\ clus[2] = 1
  /\ OuterLoop(ctr, epsilon, ZeroVector(nrows), 0)[1] = 1

(***************************************************************************)
(* Claims about the kernel primitives.                                     *)
(***************************************************************************)

Returned(f) == call = f /\ ret # <<>>

\* The planar Euclidean distance between (px, py) and (cx, cy) is at most r:
\* some s in 0 .. r has a square that reaches the squared distance.
PlanarDistanceAtMost(px, py, cx, cy, r) ==
  \E s \in 0..r : (px - cx) * (px - cx) + (py - cy) * (py - cy) <= s * s

\* CtrZ - Height/2 <= PointZ <= CtrZ + Height/2, cleared of the division.
InZWindow(pz, cz, h) == 2 * cz - h <= 2 * pz /\ 2 * pz <= 2 * cz + h

\* What C4 says InCylinder returns on the arguments a.
CylinderMembership(a) ==
  /\ PlanarDistanceAtMost(a.PointX, a.PointY, a.CtrX, a.CtrY, a.Radius)
  /\ InZWindow(a.PointZ, a.CtrZ, a.Height)

\* C4 as stated: for all values of the point, the center, Radius and Height,
\* InCylinder returns true iff the planar distance to the center is <= Radius
\* and CtrZ - Height/2 <= PointZ <= CtrZ + Height/2.
C4_CylinderMembership ==
  Returned("InCylinder") => (ret[1] <=> CylinderMembership(args))

\* C4 as amended: the same for every Radius >= 0 (and every Height); the
\* boundaries, at distance Radius and at either z edge, are inside.
C4_CylinderMembershipNonNegRadius ==
  (Returned("InCylinder") /\ args.Radius >= 0) =>
     (ret[1] <=> CylinderMembership(args))

\* C4 witness: a point at distance exactly Radius > 0 and exactly on the
\* upper z edge was found inside.
C4_Witness ==
  /\ Returned("InCylinder")
  /\ args.Radius > 0 /\ args.Height > 0
  /\ (args.PointX - args.CtrX) * (args.PointX - args.CtrX)
       + (args.PointY - args.CtrY) * (args.PointY - args.CtrY)
       = args.Radius * args.Radius
  /\ 2 * args.PointZ = 2 * args.CtrZ + args.Height
  /\ ret[1] = TRUE

\* PointZ lies outside the closed window [CtrZ - h/4, CtrZ + h/2].
OutsideWindow(a) ==
  4 * a.PointZ < 4 * a.CtrZ - a.Height \/ 2 * a.PointZ > 2 * a.CtrZ + a.Height

\* C5: for Height > 0 the vertical weight is exactly 0 outside the window
\* [CtrZ - h/4, CtrZ + h/2], exactly 1 at PointZ = CtrZ + h/8, and nowhere
\* more than 1.
C5_WindowAndPeak ==
  (Returned("EpanechnikovFunction") /\ args.Height > 0) =>
     /\ OutsideWindow(args) => ret[1] = <<0, 1>>
     /\ 8 * args.PointZ = 8 * args.CtrZ + args.Height => ret[1] = <<1, 1>>
     /\ ret[1][2] > 0 /\ ret[1][1] <= ret[1][2]

\* C5 witness: the weight was evaluated at the peak, PointZ = CtrZ + h/8,
\* for a Height > 0, and is 1.
C5_Witness ==
  /\ Returned("EpanechnikovFunction")
  /\ args.Height > 0
  /\ 8 * args.PointZ = 8 * args.CtrZ + args.Height
  /\ ret[1] = <<1, 1>>

\* C6 as stated: some finite input makes the vertical weight negative: once
\* EpanechnikovFunction has been evaluated on every input, a negative weight
\* has been seen.
C6_WeightCanBeNegative ==
  call = "swept" => negative

\* C6 as amended: the vertical weight is never negative.  Where the weight
\* formula is used (PointZ inside the window) and Height # 0, VerticalDistance
\* is in [0, 1] (on inputs whose arithmetic is exact) and the weight in
\* [0, 1]; for Height = 0 and PointZ = CtrZ the weight is NaN; a
\* VerticalDistance above 2 occurs only outside the window, where the weight
\* is 0.
C6_WeightNeverNegative ==
  /\ ~negative
  /\ Returned("EpanechnikovFunction") =>
       LET vd == VerticalDistance(args.Height, args.CtrZ, args.PointZ)
       IN  /\ ret[1][1] >= 0
           /\ (~OutsideWindow(args) /\ args.Height # 0) =>
                /\ vd[2] > 0 /\ 0 <= vd[1] /\ vd[1] <= vd[2]
                /\ ret[1][2] > 0 /\ ret[1][1] <= ret[1][2]
           /\ (~OutsideWindow(args) /\ args.Height = 0) => ret[1] = NaN
           /\ FLess(<<2, 1>>, vd) => ret[1] = <<0, 1>>

\* C6 witness: the weight formula was used, inside the window and off the
\* planes and the peak, and gave a weight strictly between 0 and 1.
C6_Witness ==
  /\ Returned("EpanechnikovFunction")
  /\ args.Height > 0
  /\ ~OutsideWindow(args)
  /\ 0 < ret[1][1] /\ ret[1][1] < ret[1][2]

\* C9 as stated: for Height > 0, VerticalDistance is 0 at PointZ = CtrZ + h/8.
C9_ZeroAtPeak ==
  (/\ Returned("VerticalDistance")
   /\ args.Height > 0
   /\ 8 * args.PointZ = 8 * args.CtrZ + args.Height) => ret[1] = <<0, 1>>

\* C9 as amended: for Height > 0, VerticalDistance is 1 at PointZ = CtrZ + h/8
\* (the point is 3h/8 from either plane), which is where the weight
\* 1 - (1 - VerticalDistance)^2 is 1.
C9_OneAtPeak ==
  (/\ Returned("VerticalDistance")
   /\ args.Height > 0
   /\ 8 * args.PointZ = 8 * args.CtrZ + args.Height) => ret[1] = <<1, 1>>

\* C9 witness: VerticalDistance was evaluated at PointZ = CtrZ + h/8 for a
\* Height > 0 and a center other than 0.
C9_Witness ==
  /\ Returned("VerticalDistance")
  /\ args.Height > 0 /\ args.CtrZ # 0
  /\ 8 * args.PointZ = 8 * args.CtrZ + args.Height
  /\ ret[1] = <<1, 1>>

\* C10: the argument of exp computed by GaussFunction equals the one computed
\* by the R function gauss of the comment below it, for every Width, center
\* and point.
C10_GaussEquivalentToR ==
  Returned("GaussFunction") =>
     ret[1] = gauss(args.Width, args.CtrX, args.CtrY, args.PointX, args.PointY)

====
